---- MODULE Spec2Model ----
(***************************************************************************)
(* Model of components/rendering/src/ast_html.rs: the renderer that turns  *)
(* a document tree (Content / Node / Tag / Event) into HTML text.          *)
(*                                                                         *)
(* Text is modelled as sequences of bytes (the UTF-8 bytes of a Rust       *)
(* String), so that escape_html, which works on bytes, is modelled by what *)
(* it does.                                                                *)
(***************************************************************************)
EXTENDS Integers, Sequences, FiniteSets, TLC

(***************************************************************************)
(* Bounds of the model.                                                    *)
(***************************************************************************)
\* nodes the document iterator yields during one into_html call
MaxNodes == 3
\* nesting depth of blocks
MaxDepth == 2
\* characters of the string handed to escape_html
MaxChars == 3
\* calls of Context methods in the method-level specification
MaxCalls == 3

(***************************************************************************)
(* Byte strings.                                                           *)
(***************************************************************************)
\* "\n"
NL == <<10>>

\* format!("{}", n) of a non-negative integer: its decimal digits
RECURSIVE format_int(_)
format_int(n) ==
    IF n < 10 THEN <<48 + n>> ELSE format_int(n \div 10) \o <<48 + (n % 10)>>

\* number of occurrences of byte b in s
RECURSIVE CountByte(_, _)
CountByte(b, s) ==
    IF s = <<>> THEN 0
    ELSE (IF Head(s) = b THEN 1 ELSE 0) + CountByte(b, Tail(s))

\* number of positions of s where the substring sub starts
CountSub(sub, s) ==
    Cardinality({k \in 1..Len(s) :
        /\ k + Len(sub) - 1 <= Len(s)
        /\ SubSeq(s, k, k + Len(sub) - 1) = sub})

\* the suffix of s after its first n bytes
Drop(s, n) == SubSeq(s, n + 1, Len(s))

(***************************************************************************)
(* escape_html                                                             *)
(***************************************************************************)
\* buf.write_char(c as char) on a String: the byte becomes the code point
\* U+00cc, pushed in its UTF-8 encoding
write_char(c) ==
    IF c < 128 THEN <<c>> ELSE <<192 + (c \div 64), 128 + (c % 64)>>

\* escape_byte with the conventional entity &#39; for '\''
escape_byte_apostrophe(c) ==
    CASE c = 34 -> <<38, 113, 117, 111, 116, 59>>
      [] c = 38 -> <<38, 97, 109, 112, 59>>
      [] c = 39 -> <<38, 35, 51, 57, 59>>
      [] c = 60 -> <<38, 108, 116, 59>>
      [] c = 62 -> <<38, 103, 116, 59>>
      [] OTHER  -> write_char(c)

\* one iteration of the loop of escape_html: what is written for byte c
escape_byte(c) ==
    CASE c = 34 -> <<38, 113, 117, 111, 116, 59>>      \* '"'  -> &quot;
      [] c = 38 -> <<38, 97, 109, 112, 59>>            \* '&'  -> &amp;
      [] c = 39 -> <<38, 35, 52, 55, 59>>              \* '\'' -> &#47;
      [] c = 60 -> <<38, 108, 116, 59>>                \* '<'  -> &lt;
      [] c = 62 -> <<38, 103, 116, 59>>                \* '>'  -> &gt;
      [] OTHER  -> write_char(c)

\* escape_html(buf, html): buf after the whole loop
RECURSIVE escape_html(_, _)
escape_html(b, h) ==
    IF h = <<>> THEN b ELSE escape_html(b \o escape_byte(Head(h)), Tail(h))

(***************************************************************************)
(* Context                                                                 *)
(***************************************************************************)
\* Option<TagType>
Opening == "Opening"
Closing == "Closing"
NoneTag == "None"
TagTypes == {Opening, Closing, NoneTag}

\* Context::render_tag(&self, tag, buf)
render_tag(tt, tag, b) ==
    LET tag_closer == IF tt = Closing THEN <<47>> ELSE <<>>
    IN  b \o <<60>> \o tag_closer \o tag \o <<62>>

\* tags.into_iter().for_each(|t| self.render_tag(t, buf))
RECURSIVE render_each(_, _, _)
render_each(tt, tags, b) ==
    IF tags = <<>> THEN b
    ELSE render_each(tt, Tail(tags), render_tag(tt, Head(tags), b))

\* Iterator::rev
RECURSIVE rev(_)
rev(s) == IF s = <<>> THEN <<>> ELSE Append(rev(Tail(s)), Head(s))

\* render_nested_tags that closes in the listed order
render_nested_tags_unreversed(tt, tags, b) ==
    CASE tt = Opening -> render_each(tt, tags, b)
      [] tt = Closing -> render_each(tt, tags, b)
      [] OTHER        -> b

\* Context::render_nested_tags(&self, tags, buf)
render_nested_tags(tt, tags, b) ==
    CASE tt = Opening -> render_each(tt, tags, b)
      [] tt = Closing -> render_each(tt, rev(tags), b)
      [] OTHER        -> b

\* get_footnote_index with insert in place of entry().or_insert()
get_footnote_index_overwrite(fi, id) ==
    LET num_footnotes == Cardinality(DOMAIN fi) + 1
        after == [x \in DOMAIN fi \cup {id} |->
                     IF x = id THEN num_footnotes ELSE fi[x]]
    IN  [index |-> after[id], footnote_indices |-> after]

\* Context::get_footnote_index(&mut self, id): the returned index and the
\* mapping afterwards
get_footnote_index(fi, id) ==
    LET num_footnotes == Cardinality(DOMAIN fi) + 1
        after == IF id \in DOMAIN fi THEN fi
                 ELSE [x \in DOMAIN fi \cup {id} |->
                          IF x = id THEN num_footnotes ELSE fi[x]]
    IN  [index |-> after[id], footnote_indices |-> after]

\* Context::render_footnote_reference(&mut self, id, buf)
render_footnote_reference(fi, id, b) ==
    LET b1 == b \o <<60, 115, 117, 112, 32, 99, 108, 97, 115, 115, 61, 34,
                     102, 111, 111, 116, 110, 111, 116, 101, 45,
                     114, 101, 102, 101, 114, 101, 110, 99, 101, 34, 62,
                     60, 97, 32, 104, 114, 101, 102, 61, 34, 35>>
        b2 == escape_html(b1, id)
        b3 == b2 \o <<34, 62>>
        r  == get_footnote_index(fi, id)
        b4 == b3 \o format_int(r.index)
        b5 == b4 \o <<60, 47, 97, 62, 60, 47, 115, 117, 112, 62>>
    IN  [buf |-> b5, footnote_indices |-> r.footnote_indices, index |-> r.index]

\* render_footnote_definition whose label is the next free number
render_footnote_definition_fresh(tt, fi, id, b) ==
    CASE tt = Opening ->
           LET b1 == b \o <<60, 100, 105, 118, 32, 99, 108, 97, 115, 115, 61, 34,
                            102, 111, 111, 116, 110, 111, 116, 101, 45,
                            100, 101, 102, 105, 110, 105, 116, 105, 111, 110, 34,
                            32, 105, 100, 61, 34>>
               b2 == escape_html(b1, id)
               b3 == b2 \o <<34, 62, 60, 115, 117, 112, 32, 99, 108, 97, 115, 115, 61, 34,
                             102, 111, 111, 116, 110, 111, 116, 101, 45,
                             100, 101, 102, 105, 110, 105, 116, 105, 111, 110, 45,
                             108, 97, 98, 101, 108, 34, 62>>
               r  == get_footnote_index(fi, id)
               n  == Cardinality(DOMAIN fi) + 1
               b4 == b3 \o format_int(n)
               b5 == b4 \o <<60, 47, 115, 117, 112, 62, 10>>
           IN  [buf |-> b5, footnote_indices |-> r.footnote_indices, index |-> n]
      [] tt = Closing ->
           [buf |-> b \o <<60, 47, 100, 105, 118, 62>>, footnote_indices |-> fi, index |-> 0]
      [] OTHER ->
           [buf |-> b, footnote_indices |-> fi, index |-> 0]

\* Context::render_footnote_definition(&mut self, id, buf)
render_footnote_definition(tt, fi, id, b) ==
    CASE tt = Opening ->
           LET b1 == b \o <<60, 100, 105, 118, 32, 99, 108, 97, 115, 115, 61, 34,
                            102, 111, 111, 116, 110, 111, 116, 101, 45,
                            100, 101, 102, 105, 110, 105, 116, 105, 111, 110, 34,
                            32, 105, 100, 61, 34>>
               b2 == escape_html(b1, id)
               b3 == b2 \o <<34, 62, 60, 115, 117, 112, 32, 99, 108, 97, 115, 115, 61, 34,
                             102, 111, 111, 116, 110, 111, 116, 101, 45,
                             100, 101, 102, 105, 110, 105, 116, 105, 111, 110, 45,
                             108, 97, 98, 101, 108, 34, 62>>
               r  == get_footnote_index(fi, id)
               b4 == b3 \o format_int(r.index)
               b5 == b4 \o <<60, 47, 115, 117, 112, 62, 10>>
           IN  [buf |-> b5, footnote_indices |-> r.footnote_indices, index |-> r.index]
      [] tt = Closing ->
           [buf |-> b \o <<60, 47, 100, 105, 118, 62>>, footnote_indices |-> fi, index |-> 0]
      [] OTHER ->
           [buf |-> b, footnote_indices |-> fi, index |-> 0]

(***************************************************************************)
(* The document tree: Tag, Event, Node                                     *)
(***************************************************************************)
\* footnote identifiers: "a" and "<\u{e9}" (a special character and a
\* two-byte character)
Ids == {<<97>>, <<60, 195, 169>>}
\* payload of Text / Html / InlineHtml events: "x<\n"
Texts == {<<120, 60, 10>>}
\* levels of Header(n)
HeaderLevels == {1, 2}

\* pulldown_cmark::Tag, the variants the renderer names and one it does not
Tags ==
    {[kind |-> "Paragraph", level |-> 0, id |-> <<>>],
     [kind |-> "CodeBlock", level |-> 0, id |-> <<>>],
     [kind |-> "BlockQuote", level |-> 0, id |-> <<>>]}
    \cup {[kind |-> "Header", level |-> n, id |-> <<>>] : n \in HeaderLevels}
    \cup {[kind |-> "FootnoteDefinition", level |-> 0, id |-> i] : i \in Ids}
NoTag == [kind |-> "None", level |-> 0, id |-> <<>>]

\* pulldown_cmark::Event
Events ==
    {[kind |-> k, text |-> t] : k \in {"Text", "Html", "InlineHtml"}, t \in Texts}
    \cup {[kind |-> "FootnoteReference", text |-> i] : i \in Ids}
    \cup {[kind |-> k, text |-> <<>>] : k \in {"Start", "End", "SoftBreak", "HardBreak"}}
NoEvent == [kind |-> "None", text |-> <<>>]

\* ast::Node
Nodes ==
    {[node |-> "Block", tag |-> t, event |-> NoEvent] : t \in Tags}
    \cup {[node |-> "Item", tag |-> NoTag, event |-> e] : e \in Events}
NoNode == [node |-> "None", tag |-> NoTag, event |-> NoEvent]

\* Tag::render with an arm that renders the other tags as <blockquote>
Tag_render_quoted(tag, tt, fi, b) ==
    CASE tag.kind = "Paragraph" ->
           [buf |-> render_tag(tt, <<112>>, b), footnote_indices |-> fi, index |-> 0]
      [] tag.kind = "Header" ->
           [buf |-> render_tag(tt, <<104>> \o format_int(tag.level), b),
            footnote_indices |-> fi, index |-> 0]
      [] tag.kind = "CodeBlock" ->
           [buf |-> render_nested_tags(tt, <<(<<112, 114, 101>>), (<<99, 111, 100, 101>>)>>, b),
            footnote_indices |-> fi, index |-> 0]
      [] tag.kind = "FootnoteDefinition" ->
           render_footnote_definition(tt, fi, tag.id, b)
      [] OTHER ->
           [buf |-> render_tag(tt, <<98, 108, 111, 99, 107, 113, 117, 111, 116, 101>>, b),
            footnote_indices |-> fi, index |-> 0]

\* <Tag as IntoHtml>::render
Tag_render(tag, tt, fi, b) ==
    CASE tag.kind = "Paragraph" ->
           [buf |-> render_tag(tt, <<112>>, b), footnote_indices |-> fi, index |-> 0]
      [] tag.kind = "Header" ->
           [buf |-> render_tag(tt, <<104>> \o format_int(tag.level), b),
            footnote_indices |-> fi, index |-> 0]
      [] tag.kind = "CodeBlock" ->
           [buf |-> render_nested_tags(tt, <<(<<112, 114, 101>>), (<<99, 111, 100, 101>>)>>, b),
            footnote_indices |-> fi, index |-> 0]
      [] tag.kind = "FootnoteDefinition" ->
           render_footnote_definition(tt, fi, tag.id, b)
      [] OTHER ->
           [buf |-> b, footnote_indices |-> fi, index |-> 0]

\* the event kinds whose arm of <Event as IntoHtml>::render pushes the text
PassThroughKinds == {"Text", "Html", "InlineHtml"}

\* Event::render that skips the events it does not name
Event_render_skip(ev, fi, b) ==
    CASE ev.kind \in PassThroughKinds ->
           [buf |-> b \o ev.text, footnote_indices |-> fi, index |-> 0, panic |-> FALSE]
      [] ev.kind = "FootnoteReference" ->
           LET r == render_footnote_reference(fi, ev.text, b)
           IN  [buf |-> r.buf, footnote_indices |-> r.footnote_indices,
                index |-> r.index, panic |-> FALSE]
      [] OTHER ->
           [buf |-> b, footnote_indices |-> fi, index |-> 0, panic |-> FALSE]

\* <Event as IntoHtml>::render; panic is TRUE when the arm is unreachable!()
\* or panic!()
Event_render(ev, fi, b) ==
    CASE ev.kind \in PassThroughKinds ->
           [buf |-> b \o ev.text, footnote_indices |-> fi, index |-> 0, panic |-> FALSE]
      [] ev.kind = "FootnoteReference" ->
           LET r == render_footnote_reference(fi, ev.text, b)
           IN  [buf |-> r.buf, footnote_indices |-> r.footnote_indices,
                index |-> r.index, panic |-> FALSE]
      [] OTHER ->
           [buf |-> b, footnote_indices |-> fi, index |-> 0, panic |-> TRUE]

\* the assignments to context.tag_type in the Block arm of
\* <Node as IntoHtml>::render
Block_open_tag_type == Opening
Block_content_tag_type == NoneTag
Block_close_tag_type == Closing
\* the direction left as the closing pass set it
Block_exit_tag_type_stale == Closing
Block_exit_tag_type == NoneTag

\* two newlines after the closing pass
Block_terminator_double == <<10, 10>>

\* buf.push('\n') after the closing pass
Block_terminator == NL

(***************************************************************************)
(* State                                                                   *)
(***************************************************************************)
VARIABLES
    tag_type,          \* Context.tag_type
    footnote_indices,  \* Context.footnote_indices
    buf,               \* the output String
    stack,             \* the blocks being rendered, innermost last
    pc,                \* position of the render call
    cur,               \* the node the content loop is rendering
    pulled,            \* nodes the document iterator has yielded
    done,              \* history: the block that finished last
    refShown,          \* history: per id, the numbers its references showed
    defShown,          \* history: per id, the numbers its definitions showed
    firstSeen,         \* history: the ids in the order of their first encounter
    html,              \* escape_html: the input string
    hi,                \* escape_html: bytes consumed
    calls,             \* method-level specification: calls made
    last               \* method-level specification: the last call

vars == <<tag_type, footnote_indices, buf, stack, pc, cur, pulled, done,
          refShown, defShown, firstSeen, html, hi, calls, last>>

travVars == <<stack, cur, pulled, done, refShown, defShown, firstSeen>>
escVars == <<html, hi>>
ctxVars == <<calls, last>>

NoDone == [tag |-> NoTag, start |-> 0, end |-> 0, open |-> <<>>, inner |-> <<>>,
           close |-> <<>>, term |-> <<>>, depth |-> 0]
NoCall == [op |-> "none", arg |-> <<>>, before |-> <<>>, index |-> 0]

\* Context::new
Context_new ==
    /\ tag_type = NoneTag
    /\ footnote_indices = <<>>

\* history: the encounter of id is appended when it is the first
Seen(fs, id) ==
    IF \E k \in 1..Len(fs) : fs[k] = id THEN fs ELSE Append(fs, id)

(***************************************************************************)
(* into_html: the traversal                                                *)
(***************************************************************************)
Init ==
    /\ Context_new
    /\ buf = <<>>
    /\ stack = <<>>
    /\ pc = "content"
    /\ cur = NoNode
    /\ pulled = 0
    /\ done = NoDone
    /\ refShown = [i \in Ids |-> {}]
    /\ defShown = [i \in Ids |-> {}]
    /\ firstSeen = <<>>
    /\ html = <<>>
    /\ hi = 0
    /\ calls = 0
    /\ last = NoCall

\* <Content as IntoHtml>::render, the loop pulls the next node
ContentNext(n) ==
    /\ pc = "content"
    /\ pulled < MaxNodes
    /\ n.node = "Block" => Len(stack) < MaxDepth
    /\ cur' = n
    /\ pulled' = pulled + 1
    /\ pc' = "node"
    /\ UNCHANGED <<tag_type, footnote_indices, buf, stack, done, refShown,
                   defShown, firstSeen, escVars, ctxVars>>

\* the loop of the top-level content ends: into_html returns
ContentEndTop ==
    /\ pc = "content"
    /\ stack = <<>>
    /\ pc' = "done"
    /\ UNCHANGED <<tag_type, footnote_indices, buf, stack, cur, pulled, done,
                   refShown, defShown, firstSeen, escVars, ctxVars>>

\* the loop of a block's content ends; the Block arm sets the closing
\* direction
ContentEndBlock ==
    /\ pc = "content"
    /\ stack # <<>>
    /\ tag_type' = Block_close_tag_type
    /\ stack' = [stack EXCEPT ![Len(stack)].contentEnd = Len(buf)]
    /\ pc' = "close_tag"
    /\ UNCHANGED <<footnote_indices, buf, cur, pulled, done, refShown,
                   defShown, firstSeen, escVars, ctxVars>>

\* <Node as IntoHtml>::render, Item arm
NodeItem ==
    /\ pc = "node"
    /\ cur.node = "Item"
    /\ LET r == Event_render(cur.event, footnote_indices, buf)
           isRef == cur.event.kind = "FootnoteReference"
       IN  IF r.panic
           THEN /\ pc' = "panicked"
                /\ UNCHANGED <<tag_type, footnote_indices, buf, stack, cur,
                               pulled, done, refShown, defShown, firstSeen>>
           ELSE /\ pc' = "content"
                /\ buf' = r.buf
                /\ footnote_indices' = r.footnote_indices
                /\ cur' = NoNode
                /\ refShown' = IF isRef
                               THEN [refShown EXCEPT ![cur.event.text] = @ \cup {r.index}]
                               ELSE refShown
                /\ firstSeen' = IF isRef THEN Seen(firstSeen, cur.event.text)
                                ELSE firstSeen
                /\ UNCHANGED <<tag_type, stack, pulled, done, defShown>>
    /\ UNCHANGED <<escVars, ctxVars>>

\* <Node as IntoHtml>::render, Block arm: the opening direction is set
NodeBlock ==
    /\ pc = "node"
    /\ cur.node = "Block"
    /\ tag_type' = Block_open_tag_type
    /\ stack' = Append(stack, [tag |-> cur.tag, start |-> Len(buf),
                               openEnd |-> Len(buf), contentEnd |-> Len(buf)])
    /\ cur' = NoNode
    /\ pc' = "open_tag"
    /\ UNCHANGED <<footnote_indices, buf, pulled, done, refShown, defShown,
                   firstSeen, escVars, ctxVars>>

\* Block arm: the tag is rendered for opening and the direction cleared
BlockOpenTag ==
    /\ pc = "open_tag"
    /\ LET top == stack[Len(stack)]
           r == Tag_render(top.tag, tag_type, footnote_indices, buf)
           isDef == top.tag.kind = "FootnoteDefinition"
       IN  /\ buf' = r.buf
           /\ footnote_indices' = r.footnote_indices
           /\ stack' = [stack EXCEPT ![Len(stack)].openEnd = Len(r.buf)]
           /\ defShown' = IF isDef
                          THEN [defShown EXCEPT ![top.tag.id] = @ \cup {r.index}]
                          ELSE defShown
           /\ firstSeen' = IF isDef THEN Seen(firstSeen, top.tag.id) ELSE firstSeen
    /\ tag_type' = Block_content_tag_type
    /\ pc' = "content"
    /\ UNCHANGED <<cur, pulled, done, refShown, escVars, ctxVars>>

\* Block arm: the tag is rendered for closing, the newline pushed and the
\* direction cleared; the block returns to its parent's loop
BlockCloseTag ==
    /\ pc = "close_tag"
    /\ LET top == stack[Len(stack)]
           r == Tag_render(top.tag, tag_type, footnote_indices, buf)
       IN  /\ buf' = r.buf \o Block_terminator
           /\ footnote_indices' = r.footnote_indices
           /\ done' = [tag |-> top.tag,
                       start |-> top.start,
                       end |-> Len(buf'),
                       open |-> SubSeq(buf, top.start + 1, top.openEnd),
                       inner |-> SubSeq(buf, top.openEnd + 1, top.contentEnd),
                       close |-> Drop(r.buf, top.contentEnd),
                       term |-> Drop(buf', Len(r.buf)),
                       depth |-> Len(stack)]
    /\ stack' = SubSeq(stack, 1, Len(stack) - 1)
    /\ tag_type' = Block_exit_tag_type
    /\ pc' = "content"
    /\ UNCHANGED <<cur, pulled, refShown, defShown, firstSeen, escVars, ctxVars>>

Next ==
    \/ \E n \in Nodes : ContentNext(n)
    \/ ContentEndTop
    \/ ContentEndBlock
    \/ NodeItem
    \/ NodeBlock
    \/ BlockOpenTag
    \/ BlockCloseTag

Spec == Init /\ [][Next]_vars

(***************************************************************************)
(* escape_html on its own: the loop over the bytes of the input            *)
(***************************************************************************)
\* characters of the inputs: the five special characters, 'a', ';' and the
\* two-byte character U+00E9
EscChars == {<<34>>, <<38>>, <<39>>, <<60>>, <<62>>, <<97>>, <<59>>, <<195, 169>>}

\* the strings of at most n characters
RECURSIVE Strings(_)
Strings(n) ==
    IF n = 0 THEN {<<>>}
    ELSE Strings(n - 1) \cup {s \o c : s \in Strings(n - 1), c \in EscChars}

InitEsc ==
    /\ Context_new
    /\ buf = <<>>
    /\ stack = <<>>
    /\ pc = "escape"
    /\ cur = NoNode
    /\ pulled = 0
    /\ done = NoDone
    /\ refShown = [i \in Ids |-> {}]
    /\ defShown = [i \in Ids |-> {}]
    /\ firstSeen = <<>>
    /\ html \in Strings(MaxChars)
    /\ hi = 0
    /\ calls = 0
    /\ last = NoCall

\* one iteration of `for c in html.as_bytes()`
EscapeStep ==
    /\ pc = "escape"
    /\ hi < Len(html)
    /\ buf' = buf \o escape_byte(html[hi + 1])
    /\ hi' = hi + 1
    /\ UNCHANGED <<tag_type, footnote_indices, pc, html, travVars, ctxVars>>

\* the loop ends: Ok(())
EscapeReturn ==
    /\ pc = "escape"
    /\ hi = Len(html)
    /\ pc' = "escaped"
    /\ UNCHANGED <<tag_type, footnote_indices, buf, escVars, travVars, ctxVars>>

NextEsc ==
    \/ EscapeStep
    \/ EscapeReturn

SpecEsc == InitEsc /\ [][NextEsc]_vars

(***************************************************************************)
(* The methods of Context on their own, called in any order                *)
(***************************************************************************)
\* tag names handed to render_tag: "p" and "h2"
TagNames == {<<112>>, <<104, 50>>}

InitCtx ==
    /\ Context_new
    /\ buf = <<>>
    /\ stack = <<>>
    /\ pc = "context"
    /\ cur = NoNode
    /\ pulled = 0
    /\ done = NoDone
    /\ refShown = [i \in Ids |-> {}]
    /\ defShown = [i \in Ids |-> {}]
    /\ firstSeen = <<>>
    /\ html = <<>>
    /\ hi = 0
    /\ calls = 0
    /\ last = NoCall

\* context.tag_type = ...
CtxSetTagType(tt) ==
    /\ pc = "context"
    /\ calls < MaxCalls
    /\ tag_type' = tt
    /\ calls' = calls + 1
    /\ last' = [op |-> "set_tag_type", arg |-> <<>>, before |-> buf, index |-> 0]
    /\ UNCHANGED <<footnote_indices, buf, pc, travVars, escVars>>

\* context.render_tag(name, buf)
CtxRenderTag(name) ==
    /\ pc = "context"
    /\ calls < MaxCalls
    /\ buf' = render_tag(tag_type, name, buf)
    /\ calls' = calls + 1
    /\ last' = [op |-> "render_tag", arg |-> name, before |-> buf, index |-> 0]
    /\ UNCHANGED <<tag_type, footnote_indices, pc, travVars, escVars>>

\* context.render_nested_tags(&["pre", "code"], buf)
CtxRenderNestedTags ==
    /\ pc = "context"
    /\ calls < MaxCalls
    /\ buf' = render_nested_tags(tag_type, <<(<<112, 114, 101>>), (<<99, 111, 100, 101>>)>>, buf)
    /\ calls' = calls + 1
    /\ last' = [op |-> "render_nested_tags", arg |-> <<>>, before |-> buf, index |-> 0]
    /\ UNCHANGED <<tag_type, footnote_indices, pc, travVars, escVars>>

\* context.get_footnote_index(id)
CtxGetFootnoteIndex(id) ==
    /\ pc = "context"
    /\ calls < MaxCalls
    /\ LET r == get_footnote_index(footnote_indices, id)
       IN  /\ footnote_indices' = r.footnote_indices
           /\ last' = [op |-> "get_footnote_index", arg |-> id, before |-> buf,
                       index |-> r.index]
    /\ calls' = calls + 1
    /\ UNCHANGED <<tag_type, buf, pc, travVars, escVars>>

NextCtx ==
    \/ \E tt \in TagTypes : CtxSetTagType(tt)
    \/ \E name \in TagNames : CtxRenderTag(name)
    \/ CtxRenderNestedTags
    \/ \E id \in Ids : CtxGetFootnoteIndex(id)

SpecCtx == InitCtx /\ [][NextCtx]_vars

(***************************************************************************)
(* Properties of the traversal (Spec)                                      *)
(***************************************************************************)
\* the bytes the last finished block appended, as they stand in the buffer
DoneOutput == SubSeq(buf, done.start + 1, done.end)

\* C1: a finished Paragraph, Header(n) or CodeBlock block has appended, in
\* this order and with nothing in between, its opening markup (<p>, <hn>,
\* <pre><code>), the rendering of its content, its closing markup (</p>,
\* </hn>, </code></pre>) and one newline.
C1_BlockOutput ==
    LET open == CASE done.tag.kind = "Paragraph" -> <<60, 112, 62>>
                  [] done.tag.kind = "Header" -> <<60, 104, 48 + done.tag.level, 62>>
                  [] OTHER -> <<60, 112, 114, 101, 62, 60, 99, 111, 100, 101, 62>>
        close == CASE done.tag.kind = "Paragraph" -> <<60, 47, 112, 62>>
                   [] done.tag.kind = "Header" -> <<60, 47, 104, 48 + done.tag.level, 62>>
                   [] OTHER -> <<60, 47, 99, 111, 100, 101, 62, 60, 47, 112, 114, 101, 62>>
    IN  done.tag.kind \in {"Paragraph", "Header", "CodeBlock"} =>
            /\ done.end <= Len(buf)
            /\ DoneOutput = open \o done.inner \o close \o <<10>>

\* a CodeBlock nested in another block, with content, has finished
C1_Witness ==
    /\ done.tag.kind = "CodeBlock"
    /\ done.depth = 2
    /\ done.inner # <<>>

\* C2 (state part): the identifier first seen k-th has index k, so the
\* indices are 1..n in the order of first encounter, and every number shown
\* for an identifier is its index.
C2_IndexIsOrder ==
    /\ DOMAIN footnote_indices = {firstSeen[k] : k \in 1..Len(firstSeen)}
    /\ \A k \in 1..Len(firstSeen) : footnote_indices[firstSeen[k]] = k
    /\ \A i \in Ids :
          IF i \in DOMAIN footnote_indices
          THEN refShown[i] \cup defShown[i] \subseteq {footnote_indices[i]}
          ELSE refShown[i] \cup defShown[i] = {}

\* C2 (step part): no step changes or removes a mapping.
C2_Stable ==
    \A i \in DOMAIN footnote_indices :
        /\ i \in DOMAIN footnote_indices'
        /\ footnote_indices'[i] = footnote_indices[i]

\* C2: within one render call the first encounter of an identifier assigns
\* it the number of known identifiers + 1, later encounters return the same
\* value, no mapping is changed or removed, and the indices follow the order
\* of first encounter (1..n, no gaps, no duplicates).
C2_FootnoteIndices == [](C2_IndexIsOrder) /\ [][C2_Stable]_vars

\* two identifiers are known and one of them was met at a reference and at a
\* definition
C2_Witness ==
    /\ Len(firstSeen) = 2
    /\ \E i \in Ids : refShown[i] # {} /\ defShown[i] # {}

\* newlines of the own markup of the last finished block
DoneOwnNewlines == CountByte(10, done.open \o done.close \o done.term)

ItemAtRender(kinds) ==
    /\ pc = "node"
    /\ cur.node = "Item"
    /\ cur.event.kind \notin kinds

\* the render ends in a panic: nothing is appended and nothing more pulled
PanicStep ==
    /\ pc' = "panicked"
    /\ buf' = buf
    /\ footnote_indices' = footnote_indices
    /\ pulled' = pulled

\* C6 as stated: an Item whose event is not Text, Html or FootnoteReference
\* ends the render in a panic, with nothing appended and no later node
\* rendered.
C6_PanicOriginal ==
    [][/\ ItemAtRender({"Text", "Html", "FootnoteReference"}) => PanicStep
       /\ pc = "panicked" => PanicStep]_vars

\* C6 amended: an Item whose event is not Text, Html, InlineHtml or
\* FootnoteReference ends the render in a panic, with nothing appended and
\* no later node rendered.
C6_Panic ==
    [][/\ ItemAtRender({"Text", "Html", "InlineHtml", "FootnoteReference"}) => PanicStep
       /\ pc = "panicked" => PanicStep]_vars

\* the render panicked on a Start marker inside a block, after some output
C6_Witness ==
    /\ pc = "panicked"
    /\ cur.event.kind = "Start"
    /\ stack # <<>>
    /\ buf # <<>>

\* C7 (state part): the markup of a finished FootnoteDefinition(id) and the
\* numbers shown for id.
C7_DefinitionMarkup ==
    /\ done.tag.kind = "FootnoteDefinition" =>
          /\ done.tag.id \in DOMAIN footnote_indices
          /\ done.open =
                <<60, 100, 105, 118, 32, 99, 108, 97, 115, 115, 61, 34,
                  102, 111, 111, 116, 110, 111, 116, 101, 45,
                  100, 101, 102, 105, 110, 105, 116, 105, 111, 110, 34,
                  32, 105, 100, 61, 34>>
                \o escape_html(<<>>, done.tag.id)
                \o <<34, 62, 60, 115, 117, 112, 32, 99, 108, 97, 115, 115, 61, 34,
                     102, 111, 111, 116, 110, 111, 116, 101, 45,
                     100, 101, 102, 105, 110, 105, 116, 105, 111, 110, 45,
                     108, 97, 98, 101, 108, 34, 62>>
                \o <<48 + footnote_indices[done.tag.id]>>
                \o <<60, 47, 115, 117, 112, 62>> \o <<10>>
          /\ done.close = <<60, 47, 100, 105, 118, 62>>
    /\ \A i \in Ids : \A n \in defShown[i] : \A m \in refShown[i] : n = m

\* C7 (step part): the closing pass of a block leaves the indices alone.
C7_ClosingKeepsIndices ==
    pc = "close_tag" => footnote_indices' = footnote_indices

C9_Direction ==
    /\ (pc = "open_tag") <=> (tag_type = Opening)
    /\ (pc = "close_tag") <=> (tag_type = Closing)
    /\ pc \in {"content", "node", "done", "panicked"} => tag_type = NoneTag

\* a child node starts rendering right after a nested sibling block returned
C9_Witness ==
    /\ pc = "node"
    /\ Len(stack) = 1
    /\ done.depth = 2

\* C10 (state part): a finished block with an ignored tag appended nothing
\* for its tag: its output is its content's output and the newline.
C10_PassThroughOutput ==
    done.tag.kind = "BlockQuote" =>
        /\ done.open = <<>>
        /\ done.close = <<>>
        /\ done.end <= Len(buf)
        /\ DoneOutput = done.inner \o <<10>>

\* C10 (step part): the passes of an ignored tag leave the footnote mapping
\* alone, and the opening pass leaves the buffer alone.
C10_PassThroughStep ==
    (pc \in {"open_tag", "close_tag"} /\ stack[Len(stack)].tag.kind = "BlockQuote") =>
        /\ footnote_indices' = footnote_indices
        /\ pc = "open_tag" => buf' = buf

\* C10: a block whose tag is not Paragraph, Header, CodeBlock or
\* FootnoteDefinition appends nothing for its tag and leaves the footnote
\* mapping unchanged, while its content is rendered, so that its output is
\* its content's output followed by the one terminating newline.
C10_PassThrough == [](C10_PassThroughOutput) /\ [][C10_PassThroughStep]_vars

\* an ignored block finished whose content rendered a footnote
C10_Witness ==
    /\ done.tag.kind = "BlockQuote"
    /\ done.inner # <<>>
    /\ footnote_indices # <<>>

(***************************************************************************)
(* Properties of escape_html (SpecEsc)                                     *)
(***************************************************************************)
\* the five special characters: '"', '&', '\'', '<', '>'
SpecialBytes == {34, 38, 39, 60, 62}

\* the five entities: &quot; &amp; &#47; &lt; &gt;
Entities ==
    {<<38, 113, 117, 111, 116, 59>>, <<38, 97, 109, 112, 59>>,
     <<38, 35, 52, 55, 59>>, <<38, 108, 116, 59>>, <<38, 103, 116, 59>>}

\* the loop is about to consume a byte of the set bytes
AtByte(bytes) ==
    /\ pc = "escape"
    /\ hi < Len(html)
    /\ html[hi + 1] \in bytes

\* C4 (step part): each special character is replaced by its entity, in
\* input order.
C4_Replaces ==
    /\ AtByte({34}) => buf' = buf \o <<38, 113, 117, 111, 116, 59>>
    /\ AtByte({38}) => buf' = buf \o <<38, 97, 109, 112, 59>>
    /\ AtByte({39}) => buf' = buf \o <<38, 35, 52, 55, 59>>
    /\ AtByte({60}) => buf' = buf \o <<38, 108, 116, 59>>
    /\ AtByte({62}) => buf' = buf \o <<38, 103, 116, 59>>

\* C4 (state part): the output holds no '<', '>' or '"', each of its '&'
\* starts one of the five entities, and it holds as many &#47; as the
\* consumed input holds '\''.
C4_OutputSafe ==
    /\ \A k \in 1..Len(buf) : buf[k] \notin {60, 62, 34}
    /\ \A k \in 1..Len(buf) :
          buf[k] = 38 =>
              \E e \in Entities :
                  /\ k + Len(e) - 1 <= Len(buf)
                  /\ SubSeq(buf, k, k + Len(e) - 1) = e
    /\ CountSub(<<38, 35, 52, 55, 59>>, buf) = CountByte(39, SubSeq(html, 1, hi))

\* C4: escape_html replaces '"', '&', '\'', '<', '>' by &quot;, &amp;,
\* &#47;, &lt;, &gt; in input order; the output holds no '<', '>' or '"',
\* every '&' of it starts one of the five entities, and the number of &#47;
\* in it is the number of '\'' in the input.
C4_Escape == [](C4_OutputSafe) /\ [][C4_Replaces]_vars

\* an input with '\'', '&' and '<' has been escaped
C4_Witness ==
    /\ pc = "escaped"
    /\ CountByte(39, html) >= 1
    /\ CountByte(38, html) >= 1
    /\ CountByte(60, html) >= 1

\* C5: escape_html copies every byte that is not one of the five special
\* characters to the output as that one byte, bytes >= 0x80 included.
C5_Verbatim ==
    [][AtByte(0..255 \ SpecialBytes) => buf' = Append(buf, html[hi + 1])]_vars

(***************************************************************************)
(* Properties of the Context methods (SpecCtx)                             *)
(***************************************************************************)
\* C8: render_tag(name) appends <name> when the direction is Opening,
\* </name> when it is Closing and nothing when it is None.
C8_RenderTag ==
    last.op = "render_tag" =>
        buf = last.before \o
              (CASE tag_type = Opening -> <<60>> \o last.arg \o <<62>>
                 [] tag_type = Closing -> <<60, 47>> \o last.arg \o <<62>>
                 [] OTHER -> <<>>)

====
